---- MODULE Spec2Model ----
(***************************************************************************)
(* The snippet collection and embedding pipeline of src/src/main.rs, as a  *)
(* state machine.  One pipeline process runs at a time; its durable state  *)
(* is the head commit of `develop', the file indicators.csv (the ledger)   *)
(* and the key set of the code_chunks table (the vector store).            *)
(***************************************************************************)
EXTENDS Integers, Sequences, FiniteSets, TLC

\* ---------------------------------------------------------------- bounds

\* Pipeline invocations explored in one behaviour.
MaxRuns == 3

\* main.rs:311  const BATCH_SIZE: usize = 50;
BATCH_SIZE == 50

\* Numbers of embeddable files a snapshot may hold: none, fewer than one
\* batch, exactly one batch, one batch and a remainder, two and a remainder.
FileCounts == {0, 3, BATCH_SIZE, BATCH_SIZE + 1, 2 * BATCH_SIZE + 1}

\* -------------------------------------------------------------- state

VARIABLES
    commit,         \* head of `develop'
    nfiles,         \* regular files in the head commit's tree
    ledger,         \* rows of indicators.csv
    store,          \* ids in the code_chunks table
    pc,             \* position of the pipeline process
    exit,           \* "none" while running; else how the process ended
    failure,        \* which call failed, "none" if none
    code_snippets,  \* main.rs:95
    indicators,     \* main.rs:97
    existing_ids,   \* main.rs:287
    new_snippets,   \* main.rs:303
    batch_index,    \* batches of new_snippets.chunks(BATCH_SIZE) consumed
    embeddings,     \* main.rs:327, the built batch waiting for add_rows
    total_embedded, \* main.rs:312
    report_rows,    \* rows this run wrote to README_comparison.md, -1 if none
    runs,           \* history: runs started
    run_commit,     \* history: the commit this run walks
    store_at_start, \* history: store when this run started
    ledger_at_start,\* history: ledger when this run started
    run_submitted,  \* history: ids handed to the embedding service this run
    submit_count,   \* history: id -> times handed to the embedding service
    attempted,      \* history: batch indexes whose embedding call was made
    marked,         \* history: ids counted into total_embedded this run
    discovered,     \* history: ids of the snippets this run's walk collected
    loop_done,      \* history: this run reached "All batches completed"
    died_at,        \* history: pc at which this run failed or was killed
    prev,           \* history: summary of the previous run
    target,         \* which discovery is exercised: "none", "fs" or "git"
    py_dir,         \* entries WalkDir yields under the Python indicators dir
    rs_dir,         \* entries WalkDir yields under the Rust indicators dir
    git_tree,       \* entries of a commit tree handed to walker_callback
    d_pc,           \* position of the discovery under test
    snippets,       \* utils.rs:138, what collect_all_snippets returned last
    first_snippets, \* history: what its first call returned
    calls,          \* history: calls of save_indicators_csv so far
    csv_records,    \* records save_indicators_csv wrote to indicators.csv
    walk_result     \* snippets, indicators and status of a walk of git_tree

\* ------------------------------------------------------- the content tree

\* File name suffixes of the regular files, by path number.
Exts == <<".py", ".pyx", ".pxd", ".rs", ".r">>

\* Indicator definitions the language regex matches in a regular file.
NamesIn(p) == IF p = 1 THEN <<"A">> ELSE IF p = 2 THEN <<"B", "C">> ELSE <<>>

\* Number of lines of a regular file: the first three files hold 50, 700 and
\* 0 lines.
LinesIn(p) ==
    IF p = 1 THEN 50 ELSE IF p = 2 THEN 700 ELSE IF p = 3 THEN 0 ELSE 10 + p

RegularEntry(p) ==
    [path |-> p, kind |-> "blob", ext |-> Exts[(p % 5) + 1], utf8 |-> TRUE,
     names |-> NamesIn(p), lines |-> LinesIn(p)]

\* Entries every snapshot holds besides its regular files: a directory, an
\* entry whose object cannot be loaded, a submodule (a commit object), a file
\* with an unrecognised suffix and a file that is not valid UTF-8.
SpecialEntries ==
    << [path |-> 901, kind |-> "tree",    ext |-> "",    utf8 |-> TRUE,  names |-> <<>>,
        lines |-> 20],
       [path |-> 902, kind |-> "missing", ext |-> ".py", utf8 |-> TRUE,  names |-> <<"M">>,
        lines |-> 20],
       [path |-> 903, kind |-> "commit",  ext |-> "",    utf8 |-> TRUE,  names |-> <<>>,
        lines |-> 20],
       [path |-> 904, kind |-> "blob",    ext |-> ".md", utf8 |-> TRUE,  names |-> <<"D">>,
        lines |-> 20],
       [path |-> 905, kind |-> "blob",    ext |-> ".rs", utf8 |-> FALSE, names |-> <<"U">>,
        lines |-> 20] >>

\* The entries tree.walk visits, in pre-order, for a snapshot of n files.
Tree(n) == SpecialEntries \o [p \in 1..n |-> RegularEntry(p)]

\* main.rs:133-141  the extension ladder
ExtensionOf(ext) ==
    IF ext = ".py" THEN "python"
    ELSE IF ext = ".pyx" \/ ext = ".pxd" THEN "cython"
    ELSE IF ext = ".rs" \/ ext = ".r" THEN "rust"
    ELSE "unknown"

\* main.rs:113-146,149-152  whether the callback reaches the push of a chunk
Accepted(e) ==
    /\ e.kind = "blob"
    /\ ExtensionOf(e.ext) # "unknown"
    /\ e.utf8

\* ChunkOf with an identity that depends on the run, not only on the snapshot.
ChunkOfRunCounter(c, e) ==
    [id |-> <<c, e.path + 1000 * runs>>, language |-> ExtensionOf(e.ext),
     file_path |-> e.path, lines |-> e.lines]

\* main.rs:154-159  the CodeChunk pushed for an accepted blob: the whole file
\* is its content (`lines' is the number of lines of that content)
ChunkOf(c, e) ==
    [id |-> <<c, e.path>>, language |-> ExtensionOf(e.ext), file_path |-> e.path,
     lines |-> e.lines]

\* main.rs:167-225  the indicator tuples pushed for an accepted blob
RowsOf(e) ==
    [i \in 1..Len(e.names) |->
        [filename |-> e.path, indicator_name |-> e.names[i],
         extension |-> ExtensionOf(e.ext), processed |-> "none"]]

RECURSIVE WalkSnippets(_, _, _)
\* main.rs:112-251  code_snippets after walking entries k..Len(t).  For a
\* subtree whose object cannot be loaded the callback returns
\* TreeWalkResult::Ok (line 115), not Skip, so the walker goes on to descend
\* into it, cannot, and the walk ends there.
WalkSnippets(c, t, k) ==
    IF k > Len(t) \/ t[k].kind = "missing_tree" THEN <<>>
    ELSE (IF Accepted(t[k]) THEN <<ChunkOf(c, t[k])>> ELSE <<>>)
         \o WalkSnippets(c, t, k + 1)

RECURSIVE WalkIndicators(_, _)
\* main.rs:112-251  indicators after walking entries k..Len(t)
WalkIndicators(t, k) ==
    IF k > Len(t) \/ t[k].kind = "missing_tree" THEN <<>>
    ELSE (IF Accepted(t[k]) THEN RowsOf(t[k]) ELSE <<>>)
         \o WalkIndicators(t, k + 1)

Ids(s) == {s[i].id : i \in 1..Len(s)}

vars ==
    << commit, nfiles, ledger, store, pc, exit, failure, code_snippets,
       indicators, existing_ids, new_snippets, batch_index, embeddings,
       total_embedded, report_rows, runs, run_commit, store_at_start,
       ledger_at_start, run_submitted, submit_count, attempted, marked,
       discovered, loop_done, died_at, prev, target, py_dir, rs_dir,
       git_tree, d_pc, snippets, first_snippets, calls, csv_records,
       walk_result >>

\* The state of the discovery functions checked on their own inputs.
discovery ==
    << target, py_dir, rs_dir, git_tree, d_pc, snippets, first_snippets,
       calls, csv_records, walk_result >>

\* The discovery functions are not exercised on inputs of their own.
DiscoveryOff ==
    /\ target = "none"
    /\ py_dir = <<>>
    /\ rs_dir = <<>>
    /\ git_tree = <<>>
    /\ d_pc = "off"
    /\ snippets = <<>>
    /\ first_snippets = <<>>
    /\ calls = 0
    /\ csv_records = <<>>
    /\ walk_result = [snippets |-> <<>>, indicators |-> <<>>, status |-> "none"]

disk == << commit, nfiles, ledger, store >>
memory ==
    << code_snippets, indicators, existing_ids, new_snippets, batch_index,
       embeddings, total_embedded >>
history ==
    << run_commit, store_at_start, ledger_at_start, run_submitted,
       submit_count, attempted, marked, discovered, loop_done, prev >>

\* An indicators.csv left by an earlier tool: a row that claims its file was
\* processed although the store holds nothing.
StaleLedger ==
    << [filename |-> 1, indicator_name |-> "A", extension |-> "cython",
        processed |-> "true"] >>

NoPrev ==
    [ran |-> FALSE, commit |-> "c1", loop_done |-> FALSE, died_at |-> "none",
     ledger |-> <<>>, committed |-> {}]

Init ==
    /\ commit = "c1"
    /\ nfiles \in FileCounts
    /\ ledger \in {<<>>, StaleLedger}
    /\ store = {}
    /\ pc = "idle"
    /\ exit = "none"
    /\ failure = "none"
    /\ code_snippets = <<>>
    /\ indicators = <<>>
    /\ existing_ids = {}
    /\ new_snippets = <<>>
    /\ batch_index = 0
    /\ embeddings = <<>>
    /\ total_embedded = 0
    /\ report_rows = -1
    /\ runs = 0
    /\ run_commit = "c1"
    /\ store_at_start = {}
    /\ ledger_at_start = <<>>
    /\ run_submitted = {}
    /\ submit_count = <<>>
    /\ attempted = {}
    /\ marked = {}
    /\ discovered = {}
    /\ loop_done = FALSE
    /\ died_at = "none"
    /\ prev = NoPrev
    /\ DiscoveryOff

Stopped == pc \in {"idle", "exited"}

\* The process ends with an error returned from main (`?') or a panic.
Abort(how, what) ==
    /\ pc' = "exited"
    /\ exit' = how
    /\ failure' = what
    /\ died_at' = pc

\* ------------------------------------------------------------ actions

\* A new commit lands on `develop' between two runs.
ChangeSnapshot ==
    /\ Stopped
    /\ commit = "c1"
    /\ commit' = "c2"
    /\ nfiles' \in FileCounts
    /\ UNCHANGED << ledger, store, pc, exit, failure, memory, report_rows,
                    runs, history, died_at >>
    /\ UNCHANGED discovery

\* main.rs:69-92  the process starts, opens the repository and the branch
StartRun(ok) ==
    /\ Stopped
    /\ runs < MaxRuns
    /\ runs' = runs + 1
    /\ prev' = [ran |-> runs > 0, commit |-> run_commit,
                loop_done |-> loop_done, died_at |-> died_at,
                ledger |-> ledger, committed |-> store \ store_at_start]
    /\ run_commit' = commit
    /\ store_at_start' = store
    /\ ledger_at_start' = ledger
    /\ run_submitted' = {}
    /\ attempted' = {}
    /\ marked' = {}
    /\ discovered' = {}
    /\ loop_done' = FALSE
    /\ code_snippets' = <<>>
    /\ indicators' = <<>>
    /\ existing_ids' = {}
    /\ new_snippets' = <<>>
    /\ batch_index' = 0
    /\ embeddings' = <<>>
    /\ total_embedded' = 0
    /\ report_rows' = -1
    /\ IF ok
       THEN pc' = "walk" /\ exit' = "none" /\ failure' = "none"
            /\ died_at' = "none"
       ELSE pc' = "exited" /\ exit' = "error" /\ failure' = "repository"
            /\ died_at' = "open"
    /\ UNCHANGED << disk, submit_count >>
    /\ UNCHANGED discovery

\* main.rs:94-254  tree.walk with walker_callback
Walk ==
    /\ pc = "walk"
    /\ code_snippets' = WalkSnippets(run_commit, Tree(nfiles), 1)
    /\ indicators' = WalkIndicators(Tree(nfiles), 1)
    /\ discovered' = Ids(WalkSnippets(run_commit, Tree(nfiles), 1))
    /\ pc' = "ledger_create"
    /\ UNCHANGED << disk, exit, failure, existing_ids, new_snippets,
                    batch_index, embeddings, total_embedded, report_rows,
                    runs, run_commit, store_at_start, ledger_at_start,
                    run_submitted, submit_count, attempted, marked, loop_done,
                    died_at, prev >>
    /\ UNCHANGED discovery

\* main.rs:258-259  File::create("indicators.csv"): truncates, or panics
CreateLedger(ok) ==
    /\ pc = "ledger_create"
    /\ IF ok
       THEN /\ ledger' = <<>>
            /\ pc' = "ledger_write"
            /\ UNCHANGED << exit, failure, died_at >>
       ELSE /\ Abort("panic", "ledger")
            /\ UNCHANGED ledger
    /\ UNCHANGED << commit, nfiles, store, memory, report_rows, runs, history >>
    /\ UNCHANGED discovery

\* main.rs:261-266  header and one line per indicator; a failed write returns
\* the error from main and leaves the lines written so far
WriteLedger(ok) ==
    /\ pc = "ledger_write"
    /\ IF ok
       THEN /\ ledger' = indicators
            /\ pc' = "open_store"
            /\ UNCHANGED << exit, failure, died_at >>
       ELSE /\ \E k \in 0..Len(indicators) : ledger' = SubSeq(indicators, 1, k)
            /\ Abort("error", "ledger")
    /\ UNCHANGED << commit, nfiles, store, memory, report_rows, runs, history >>
    /\ UNCHANGED discovery

\* main.rs:269-300  API key, sqlite-vec, open the database, SELECT id
OpenStore(ok) ==
    /\ pc = "open_store"
    /\ IF ok
       THEN /\ existing_ids' = store
            /\ pc' = "filter"
            /\ UNCHANGED << exit, failure, died_at >>
       ELSE /\ Abort("error", "store_open")
            /\ UNCHANGED existing_ids
    /\ UNCHANGED << disk, code_snippets, indicators, new_snippets, batch_index,
                    embeddings, total_embedded, report_rows, runs, history >>
    /\ UNCHANGED discovery

\* FilterNew without the filter.
FilterKeepsAll(snips, existing) == snips

\* FilterNew that also drops what the ledger found at start-up claims processed.
FilterTrustsLedger(snips, existing) ==
    SelectSeq(snips, LAMBDA s :
        /\ s.id \notin existing
        /\ ~\E i \in 1..Len(ledger_at_start) :
              /\ ledger_at_start[i].filename = s.file_path
              /\ ledger_at_start[i].processed = "true")

\* main.rs:303-306  keep the snippets whose id is not in existing_ids
FilterNew(snips, existing) ==
    SelectSeq(snips, LAMBDA s : s.id \notin existing)

\* main.rs:302-317
Filter ==
    /\ pc = "filter"
    /\ new_snippets' = FilterNew(code_snippets, existing_ids)
    /\ code_snippets' = <<>>
    /\ total_embedded' = 0
    /\ batch_index' = 0
    /\ pc' = "loop"
    /\ UNCHANGED << disk, exit, failure, indicators, existing_ids, embeddings,
                    report_rows, runs, history, died_at >>
    /\ UNCHANGED discovery

Min(a, b) == IF a < b THEN a ELSE b

\* NumBatches that rounds down, dropping a last batch that is not full.
NumBatchesFloor(s) == Len(s) \div BATCH_SIZE

\* main.rs:319  number of slices new_snippets.chunks(BATCH_SIZE) yields
NumBatches(s) == (Len(s) + BATCH_SIZE - 1) \div BATCH_SIZE

\* Batch whose slices start one element early, so neighbours overlap.
BatchOverlapping(s, k) ==
    SubSeq(s, IF k = 0 THEN 1 ELSE k * BATCH_SIZE,
           Min((k + 1) * BATCH_SIZE, Len(s)))

\* main.rs:319  the k-th slice (k from 0) of s.chunks(BATCH_SIZE)
Batch(s, k) == SubSeq(s, k * BATCH_SIZE + 1, Min((k + 1) * BATCH_SIZE, Len(s)))

Bump(f, ids) ==
    [i \in DOMAIN f \cup ids |->
        IF i \in ids THEN (IF i \in DOMAIN f THEN f[i] + 1 ELSE 1) ELSE f[i]]

\* main.rs:320-327  build the batch's embeddings: one request to the service
EmbedBatch(ok) ==
    /\ pc = "loop"
    /\ batch_index < NumBatches(new_snippets)
    /\ LET b == Batch(new_snippets, batch_index) IN
         /\ run_submitted' = run_submitted \cup Ids(b)
         /\ submit_count' = Bump(submit_count, Ids(b))
         /\ attempted' = attempted \cup {batch_index}
         /\ IF ok
            THEN /\ embeddings' = b
                 /\ pc' = "store"
                 /\ UNCHANGED << exit, failure, died_at >>
            ELSE /\ Abort("error", "embedding")
                 /\ UNCHANGED embeddings
    /\ UNCHANGED << disk, code_snippets, indicators, existing_ids, new_snippets,
                    batch_index, total_embedded, report_rows, runs, run_commit,
                    store_at_start, ledger_at_start, marked, discovered,
                    loop_done, prev >>
    /\ UNCHANGED discovery

\* StoreBatch that counts the batch before add_rows has succeeded.
StoreBatchCountsFirst(ok) ==
    /\ pc = "store"
    /\ total_embedded' = total_embedded + Len(embeddings)
    /\ marked' = marked \cup Ids(embeddings)
    /\ IF ok
       THEN /\ store' = store \cup Ids(embeddings)
            /\ batch_index' = batch_index + 1
            /\ embeddings' = <<>>
            /\ pc' = "loop"
            /\ UNCHANGED << exit, failure, died_at >>
       ELSE /\ Abort("error", "store_write")
            /\ UNCHANGED << store, batch_index, embeddings >>
    /\ UNCHANGED << commit, nfiles, ledger, code_snippets, indicators,
                    existing_ids, new_snippets, report_rows, runs, run_commit,
                    store_at_start, ledger_at_start, run_submitted,
                    submit_count, attempted, discovered, loop_done, prev >>
    /\ UNCHANGED discovery

\* StoreBatch that does not wait for add_rows: the loop goes on while the
\* write has not reached the table.
StoreBatchNotAwaited(ok) ==
    /\ pc = "store"
    /\ IF ok
       THEN /\ total_embedded' = total_embedded + Len(embeddings)
            /\ marked' = marked \cup Ids(embeddings)
            /\ batch_index' = batch_index + 1
            /\ embeddings' = <<>>
            /\ pc' = "loop"
            /\ UNCHANGED << store, exit, failure, died_at >>
       ELSE /\ Abort("error", "store_write")
            /\ UNCHANGED << store, total_embedded, marked, batch_index,
                            embeddings >>
    /\ UNCHANGED << commit, nfiles, ledger, code_snippets, indicators,
                    existing_ids, new_snippets, report_rows, runs, run_commit,
                    store_at_start, ledger_at_start, run_submitted,
                    submit_count, attempted, discovered, loop_done, prev >>
    /\ UNCHANGED discovery

\* StoreBatch whose write replaces the table's rows instead of adding to them.
StoreBatchReplaces(ok) ==
    /\ pc = "store"
    /\ IF ok
       THEN /\ store' = Ids(embeddings)
            /\ total_embedded' = total_embedded + Len(embeddings)
            /\ marked' = marked \cup Ids(embeddings)
            /\ batch_index' = batch_index + 1
            /\ embeddings' = <<>>
            /\ pc' = "loop"
            /\ UNCHANGED << exit, failure, died_at >>
       ELSE /\ Abort("error", "store_write")
            /\ UNCHANGED << store, total_embedded, marked, batch_index,
                            embeddings >>
    /\ UNCHANGED << commit, nfiles, ledger, code_snippets, indicators,
                    existing_ids, new_snippets, report_rows, runs, run_commit,
                    store_at_start, ledger_at_start, run_submitted,
                    submit_count, attempted, discovered, loop_done, prev >>
    /\ UNCHANGED discovery

\* StoreBatch that counts a full batch whatever the length of the batch.
StoreBatchCountsFull(ok) ==
    /\ pc = "store"
    /\ IF ok
       THEN /\ store' = store \cup Ids(embeddings)
            /\ total_embedded' = total_embedded + BATCH_SIZE
            /\ marked' = marked \cup Ids(embeddings)
            /\ batch_index' = batch_index + 1
            /\ embeddings' = <<>>
            /\ pc' = "loop"
            /\ UNCHANGED << exit, failure, died_at >>
       ELSE /\ Abort("error", "store_write")
            /\ UNCHANGED << store, total_embedded, marked, batch_index,
                            embeddings >>
    /\ UNCHANGED << commit, nfiles, ledger, code_snippets, indicators,
                    existing_ids, new_snippets, report_rows, runs, run_commit,
                    store_at_start, ledger_at_start, run_submitted,
                    submit_count, attempted, discovered, loop_done, prev >>
    /\ UNCHANGED discovery

\* main.rs:330-331  add_rows writes the whole batch in one transaction, then
\* the batch is counted.  Nothing awaits between the two lines; a process
\* killed between them leaves the same disk state as one killed after them.
StoreBatch(ok) ==
    /\ pc = "store"
    /\ IF ok
       THEN /\ store' = store \cup Ids(embeddings)
            /\ total_embedded' = total_embedded + Len(embeddings)
            /\ marked' = marked \cup Ids(embeddings)
            /\ batch_index' = batch_index + 1
            /\ embeddings' = <<>>
            /\ pc' = "loop"
            /\ UNCHANGED << exit, failure, died_at >>
       ELSE /\ Abort("error", "store_write")
            /\ UNCHANGED << store, total_embedded, marked, batch_index,
                            embeddings >>
    /\ UNCHANGED << commit, nfiles, ledger, code_snippets, indicators,
                    existing_ids, new_snippets, report_rows, runs, run_commit,
                    store_at_start, ledger_at_start, run_submitted,
                    submit_count, attempted, discovered, loop_done, prev >>
    /\ UNCHANGED discovery

\* main.rs:332-334  the loop ends: "All batches completed"
LoopDone ==
    /\ pc = "loop"
    /\ batch_index = NumBatches(new_snippets)
    /\ loop_done' = TRUE
    /\ pc' = "report"
    /\ UNCHANGED << disk, exit, failure, memory, report_rows, runs, run_commit,
                    store_at_start, ledger_at_start, run_submitted,
                    submit_count, attempted, marked, discovered, died_at,
                    prev >>
    /\ UNCHANGED discovery

\* main.rs:336-368  one completion call for the whole table, then
\* README_comparison.md is written.  A completion that succeeds is taken to
\* return one row per discovered indicator.
GenerateReport(outcome) ==
    /\ pc = "report"
    /\ CASE outcome = "ok" ->
              /\ report_rows' = Len(indicators)
              /\ pc' = "summaries"
              /\ UNCHANGED << exit, failure, died_at >>
         [] outcome = "completion_failed" ->
              /\ Abort("error", "completion")
              /\ UNCHANGED report_rows
         [] outcome = "write_failed" ->
              /\ Abort("error", "report_io")
              /\ UNCHANGED report_rows
    /\ UNCHANGED << disk, memory, runs, history >>
    /\ UNCHANGED discovery

\* main.rs:370-422  the two id summaries, then Ok(())
WriteSummaries(ok) ==
    /\ pc = "summaries"
    /\ IF ok
       THEN /\ pc' = "exited"
            /\ exit' = "ok"
            /\ UNCHANGED << failure, died_at >>
       ELSE Abort("error", "summary_io")
    /\ UNCHANGED << disk, memory, report_rows, runs, history >>
    /\ UNCHANGED discovery

\* The process is killed at any point; the store's transaction and the file
\* system keep what was already written.
Interrupt ==
    /\ ~Stopped
    /\ pc' = "exited"
    /\ exit' = "killed"
    /\ died_at' = pc
    /\ UNCHANGED << disk, failure, memory, report_rows, runs, history >>
    /\ UNCHANGED discovery

Next ==
    \/ ChangeSnapshot
    \/ \E ok \in BOOLEAN : StartRun(ok)
    \/ Walk
    \/ \E ok \in BOOLEAN : CreateLedger(ok)
    \/ \E ok \in BOOLEAN : WriteLedger(ok)
    \/ \E ok \in BOOLEAN : OpenStore(ok)
    \/ Filter
    \/ \E ok \in BOOLEAN : EmbedBatch(ok)
    \/ \E ok \in BOOLEAN : StoreBatch(ok)
    \/ LoopDone
    \/ \E o \in {"ok", "completion_failed", "write_failed"} : GenerateReport(o)
    \/ \E ok \in BOOLEAN : WriteSummaries(ok)
    \/ Interrupt

Spec == Init /\ [][Next]_vars

\* ------------------------------------------- discovery on its own inputs

\* utils.rs:63  const MAX_LINES_PER_CHUNK: usize = 300;
MAX_LINES_PER_CHUNK == 300

\* Entries a directory listing may hold, and entries a commit tree may hold.
MaxDirEntries == 2
MaxTreeEntries == 3

\* Calls of save_indicators_csv explored in one behaviour.
MaxCalls == 2

\* utils.rs:105, utils.rs:112  the two directories collect_all_snippets walks
PyDir == "nautilus_trader/nautilus_trader/indicators/"
RsDir == "nautilus_trader/crates/indicators/"

\* A readable regular file of n lines; its path is the directory, the base
\* name and the suffix.
File(dir, base, suffix, n) ==
    [path |-> <<dir, base, suffix>>, kind |-> "file", utf8 |-> TRUE,
     nlines |-> n]

\* What WalkDir may yield under the Python directory: files of 50, 700, 0 and
\* 300 lines (one with an upper-case suffix), a file with a suffix of the other
\* language, a file that is not valid UTF-8, a directory and an entry WalkDir
\* reports as an error.
PyEntries ==
    { File(PyDir, "a", ".py", 50),
      File(PyDir, "b", ".PYX", 700),
      File(PyDir, "c", ".pxd", 0),
      File(PyDir, "j", ".py", MAX_LINES_PER_CHUNK),
      File(PyDir, "d", ".rs", 10),
      [File(PyDir, "e", ".py", 20) EXCEPT !.utf8 = FALSE],
      [File(PyDir, "sub", ".py", 0) EXCEPT !.kind = "dir"],
      [File(PyDir, "locked", ".py", 20) EXCEPT !.kind = "error"] }

\* What WalkDir may yield under the Rust directory: files of 301, 1 and 600
\* lines (one with an upper-case suffix), a file with a suffix of the other
\* language and a file that is not valid UTF-8.
RsEntries ==
    { File(RsDir, "f", ".rs", MAX_LINES_PER_CHUNK + 1),
      File(RsDir, "g", ".RS", 1),
      File(RsDir, "k", ".rs", 2 * MAX_LINES_PER_CHUNK),
      File(RsDir, "h", ".py", 5),
      [File(RsDir, "i", ".rs", 20) EXCEPT !.utf8 = FALSE] }

\* What a commit tree may hold: files of 50, 700 and 0 lines, a file that is
\* not valid UTF-8, a file whose object cannot be loaded, a directory whose
\* object cannot be loaded, a directory and a file with an unrecognised suffix.
GitEntries ==
    { [path |-> 1001, kind |-> "blob", ext |-> ".py", utf8 |-> TRUE,
       names |-> <<"A">>, lines |-> 50],
      [path |-> 1002, kind |-> "blob", ext |-> ".rs", utf8 |-> TRUE,
       names |-> <<"B", "C">>, lines |-> 700],
      [path |-> 1003, kind |-> "blob", ext |-> ".pyx", utf8 |-> TRUE,
       names |-> <<>>, lines |-> 0],
      [path |-> 1004, kind |-> "blob", ext |-> ".rs", utf8 |-> FALSE,
       names |-> <<"U">>, lines |-> 20],
      [path |-> 1005, kind |-> "missing", ext |-> ".py", utf8 |-> TRUE,
       names |-> <<"M">>, lines |-> 20],
      [path |-> 1006, kind |-> "missing_tree", ext |-> "", utf8 |-> TRUE,
       names |-> <<>>, lines |-> 0],
      [path |-> 1007, kind |-> "tree", ext |-> "", utf8 |-> TRUE,
       names |-> <<>>, lines |-> 0],
      [path |-> 1008, kind |-> "blob", ext |-> ".md", utf8 |-> TRUE,
       names |-> <<"D">>, lines |-> 20] }

\* The listings of at most n entries of S, each entry at most once.
Listings(S, n) ==
    UNION { { l \in [1..k -> S] : \A i, j \in 1..k : l[i] = l[j] => i = j }
            : k \in 0..n }

\* utils.rs:39  to_lowercase, on the suffixes the listings hold
Lowercase(suffix) ==
    IF suffix = ".PYX" THEN ".pyx" ELSE IF suffix = ".RS" THEN ".rs" ELSE suffix

\* The last component of a path: what ends_with compares.
Suffix(path) == path[Len(path)]

\* utils.rs:39-51  the extension filter, on the lower-cased path
Recognized(e, extension_filter) ==
    Lowercase(Suffix(e.path)) \in extension_filter

\* ChunkId with the number of the call in it, so that it changes from one
\* call to the next.
ChunkIdPerCall(path, chunk_start, chunk_end) ==
    <<"FS::", ToString(calls), "::">> \o path
        \o <<"::chunk_", ToString(chunk_start), "_", ToString(chunk_end)>>

\* ChunkId without the range, so that the chunks of one file share it.
ChunkIdWithoutRange(path, chunk_start, chunk_end) ==
    <<"FS::">> \o path

\* utils.rs:73-76  format!("FS::{}::chunk_{}_{}", path, chunk_start, chunk_end)
ChunkId(path, chunk_start, chunk_end) ==
    <<"FS::">> \o path
        \o <<"::chunk_", ToString(chunk_start), "_", ToString(chunk_end)>>

RECURSIVE FileChunksSkipLine(_, _, _)
\* FileChunks that resumes one line after the end of the last chunk.
FileChunksSkipLine(e, lang_label, chunk_start) ==
    IF ~(chunk_start < e.nlines) THEN <<>>
    ELSE LET chunk_end == Min(chunk_start + MAX_LINES_PER_CHUNK, e.nlines)
         IN  << [id |-> ChunkId(e.path, chunk_start, chunk_end),
                 content |-> [of |-> e.path, from |-> chunk_start,
                              to |-> chunk_end],
                 language |-> lang_label,
                 file_path |-> e.path] >>
             \o FileChunksSkipLine(e, lang_label, chunk_end + 1)

RECURSIVE FileChunks(_, _, _)
\* utils.rs:64-86  the chunks pushed for a file from line chunk_start on; the
\* content of a chunk is lines [from, to) of the file
FileChunks(e, lang_label, chunk_start) ==
    IF ~(chunk_start < e.nlines) THEN <<>>
    ELSE LET chunk_end == Min(chunk_start + MAX_LINES_PER_CHUNK, e.nlines)
         IN  << [id |-> ChunkId(e.path, chunk_start, chunk_end),
                 content |-> [of |-> e.path, from |-> chunk_start,
                              to |-> chunk_end],
                 language |-> lang_label,
                 file_path |-> e.path] >>
             \o FileChunks(e, lang_label, chunk_end)

\* utils.rs:30-54  whether the loop body reaches the chunking of an entry
Read(e, extension_filter) ==
    /\ e.kind = "file"
    /\ Recognized(e, extension_filter)
    /\ e.utf8

RECURSIVE collect_snippets_from_dir(_, _, _, _)
\* utils.rs:19-95  code_snippets after the entries k..Len(dir) of a listing
collect_snippets_from_dir(dir, extension_filter, lang_label, k) ==
    IF k > Len(dir) THEN <<>>
    ELSE (IF Read(dir[k], extension_filter)
          THEN FileChunks(dir[k], lang_label, 0) ELSE <<>>)
         \o collect_snippets_from_dir(dir, extension_filter, lang_label, k + 1)

PyFilter == {".py", ".pyx", ".pxd"}
RsFilter == {".rs"}

\* utils.rs:99-119
collect_all_snippets ==
    collect_snippets_from_dir(py_dir, PyFilter, "cython_python", 1)
        \o collect_snippets_from_dir(rs_dir, RsFilter, "rust", 1)

\* utils.rs:153-164  the label ladder, on the path as it is spelled
ExtensionLabel(file_path) ==
    IF Suffix(file_path) = ".rs" THEN "rust"
    ELSE IF Suffix(file_path) = ".pyx" \/ Suffix(file_path) = ".pxd"
         THEN "cython"
    ELSE IF Suffix(file_path) = ".py" THEN "python"
    ELSE "unknown"

\* utils.rs:167-179  the record written for a snippet
RecordOf(snippet) ==
    [filename |-> snippet.file_path,
     indicator_name |-> snippet.file_path[Len(snippet.file_path) - 1],
     extension |-> ExtensionLabel(snippet.file_path)]

\* The pipeline of main.rs stays where it is.
PipelineUnchanged ==
    UNCHANGED << disk, pc, exit, failure, memory, report_rows, runs, history,
                 died_at >>

InitDiscovery ==
    /\ commit = "c1"
    /\ nfiles = 0
    /\ ledger = <<>>
    /\ store = {}
    /\ pc = "idle"
    /\ exit = "none"
    /\ failure = "none"
    /\ code_snippets = <<>>
    /\ indicators = <<>>
    /\ existing_ids = {}
    /\ new_snippets = <<>>
    /\ batch_index = 0
    /\ embeddings = <<>>
    /\ total_embedded = 0
    /\ report_rows = -1
    /\ runs = 0
    /\ run_commit = "c1"
    /\ store_at_start = {}
    /\ ledger_at_start = <<>>
    /\ run_submitted = {}
    /\ submit_count = <<>>
    /\ attempted = {}
    /\ marked = {}
    /\ discovered = {}
    /\ loop_done = FALSE
    /\ died_at = "none"
    /\ prev = NoPrev
    /\ target \in {"fs", "git"}
    /\ py_dir \in (IF target = "fs" THEN Listings(PyEntries, MaxDirEntries)
                   ELSE {<<>>})
    /\ rs_dir \in (IF target = "fs" THEN Listings(RsEntries, MaxDirEntries)
                   ELSE {<<>>})
    /\ git_tree \in (IF target = "git" THEN Listings(GitEntries, MaxTreeEntries)
                     ELSE {<<>>})
    /\ d_pc = "ready"
    /\ snippets = <<>>
    /\ first_snippets = <<>>
    /\ calls = 0
    /\ csv_records = <<>>
    /\ walk_result = [snippets |-> <<>>, indicators |-> <<>>, status |-> "none"]

\* utils.rs:136-187  save_indicators_csv: collect, then rewrite the file.
\* When the file cannot be opened (line 141) nothing is written.
SaveIndicatorsCsv(ok) ==
    /\ target = "fs"
    /\ calls < MaxCalls
    /\ LET got == collect_all_snippets
       IN  /\ snippets' = got
           /\ first_snippets' = IF calls = 0 THEN got ELSE first_snippets
           /\ csv_records' = IF ok THEN [i \in 1..Len(got) |-> RecordOf(got[i])]
                             ELSE csv_records
    /\ calls' = calls + 1
    /\ d_pc' = IF ok THEN "saved" ELSE "save_failed"
    /\ UNCHANGED << target, py_dir, rs_dir, git_tree, walk_result >>
    /\ PipelineUnchanged

\* How tree.walk may end on a tree: with a subtree that cannot be loaded the
\* walker stops with an error, which the binding in use either returns or
\* drops.
WalkOutcomes(t) ==
    IF \E k \in 1..Len(t) : t[k].kind = "missing_tree" THEN {"ok", "error"}
    ELSE {"ok"}

\* main.rs:112-251  tree.walk(PreOrder, walker_callback) on git_tree
WalkGitTree(status) ==
    /\ target = "git"
    /\ d_pc = "ready"
    /\ status \in WalkOutcomes(git_tree)
    /\ walk_result' = [snippets |-> WalkSnippets("c1", git_tree, 1),
                       indicators |-> WalkIndicators(git_tree, 1),
                       status |-> status]
    /\ d_pc' = "walked"
    /\ UNCHANGED << target, py_dir, rs_dir, git_tree, snippets,
                    first_snippets, calls, csv_records >>
    /\ PipelineUnchanged

NextDiscovery ==
    \/ \E ok \in BOOLEAN : SaveIndicatorsCsv(ok)
    \/ \E status \in {"ok", "error"} : WalkGitTree(status)

SpecDiscovery == InitDiscovery /\ [][NextDiscovery]_vars

\* ------------------------------------------------------------- claims

\* This run follows a run on the same snapshot that completed all its batches.
SecondRunOfSameSnapshot ==
    /\ prev.ran
    /\ prev.loop_done
    /\ prev.commit = run_commit

\* C1 (idempotence): when a run follows a run on the same snapshot that
\* completed all its batches, then once it is past its own batch loop it has
\* submitted no item for embedding, has added no record to the store, and
\* indicators.csv holds the rows it held after the first run.
C1_Idempotence ==
    (loop_done /\ SecondRunOfSameSnapshot) =>
        /\ run_submitted = {}
        /\ total_embedded = 0
        /\ store = store_at_start
        /\ ledger = prev.ledger

\* A second run of a snapshot with files has finished its batch loop.
C1_Witness ==
    /\ loop_done
    /\ SecondRunOfSameSnapshot
    /\ discovered # {}
    /\ ledger # <<>>

\* C2 (dedup correctness): no identity that was in the store when the run
\* started is queued, put in a batch, handed to the embedding service or
\* written to the store again by that run.
C2_DedupCorrectness ==
    /\ Ids(new_snippets) \cap store_at_start = {}
    /\ Ids(embeddings) \cap store_at_start = {}
    /\ run_submitted \cap store_at_start = {}
    /\ marked \cap store_at_start = {}

\* A run that found some of its snapshot's identities in the store is about
\* to write a batch of the others.
C2_Witness ==
    /\ pc = "store"
    /\ discovered \cap store_at_start # {}
    /\ embeddings # <<>>

\* C3 as claimed: over all runs, no identity is handed to the embedding
\* service more than once, failed and interrupted runs included.
C3_AtMostOnceSubmitted ==
    \A id \in DOMAIN submit_count : submit_count[id] <= 1

\* The identities a step hands to the embedding service.
SubmittedByStep ==
    {id \in DOMAIN submit_count' :
        id \notin DOMAIN submit_count \/ submit_count'[id] > submit_count[id]}

\* C3 (amended): an identity is handed to the embedding service only while
\* it is absent from the store and has not been handed over earlier in the
\* same run; it is handed over again only by a later run, after the batch
\* that held it failed or was interrupted before its store write.
C3_SubmittedOnlyWhileAbsent ==
    [][\A id \in SubmittedByStep : id \notin store /\ id \notin run_submitted]_vars

\* An identity was handed over twice (its first batch failed) and is stored.
C3_Witness ==
    \E id \in DOMAIN submit_count : submit_count[id] = 2 /\ id \in store

\* C4 (atomic batch commit): after any batch attempt either every item of
\* the batch is in the store and counted as embedded, or none is stored and
\* none is counted; when the store write fails after a successful embedding
\* call nothing of the batch is stored or counted, and indicators.csv holds
\* no row marked processed.
C4_AtomicBatchCommit ==
    /\ total_embedded = Cardinality(marked)
    /\ \A k \in attempted :
         LET b == Ids(Batch(new_snippets, k)) IN
           \/ b \subseteq store /\ b \subseteq marked
           \/ b \cap store = {} /\ b \cap marked = {}
    /\ failure = "store_write" =>
         /\ Ids(embeddings) # {}
         /\ Ids(embeddings) \cap (store \cup marked) = {}
         /\ \A i \in 1..Len(ledger) : ledger[i].processed # "true"

\* A second batch was embedded and its store write failed.
C4_Witness ==
    /\ failure = "store_write"
    /\ batch_index >= 1
    /\ Len(embeddings) > 1

\* C6 as claimed (batch-scoped failure): when the embedding call or the
\* store write of a batch fails, the run still attempts every later batch,
\* and the failed batch's items stay out of the store for the next run.
C6_BatchScopedFailure ==
    (pc = "exited" /\ failure \in {"embedding", "store_write"}) =>
        /\ attempted = 0..(NumBatches(new_snippets) - 1)
        /\ Ids(Batch(new_snippets, batch_index)) \cap store = {}

\* The batch loop's position is consistent with the store: every batch the
\* loop has passed is in the store.
PassedBatchesStored ==
    pc \in {"loop", "store"} =>
        \A j \in 0..(batch_index - 1) : Ids(Batch(new_snippets, j)) \subseteq store

\* What the run queues is exactly what it discovered and the store lacked;
\* it submits nothing else, and all of it once its loop has completed.
QueuedIsDiscoveredMinusStore ==
    /\ pc \in {"loop", "store"} =>
          Ids(new_snippets) = discovered \ store_at_start
    /\ run_submitted \subseteq discovered \ store_at_start
    /\ loop_done => run_submitted = discovered \ store_at_start

\* C7 (crash safety): the store never loses a key, whatever fails or is
\* interrupted; every batch the loop has passed is in the store, so a run
\* that dies in the loop loses at most the batch in flight; and the next run
\* queues exactly the discovered items the store does not hold, with what
\* the previous run committed still in the store.
C7_CrashSafety ==
    /\ [][store \subseteq store']_vars
    /\ [](PassedBatchesStored /\ QueuedIsDiscoveredMinusStore)
    /\ [](prev.committed \subseteq store_at_start /\ store_at_start \subseteq store)

\* A run follows one that died inside the batch loop after committing a
\* batch, and is about to embed what was left.
C7_Witness ==
    /\ pc = "loop"
    /\ batch_index = 0
    /\ prev.ran
    /\ prev.died_at \in {"loop", "store"}
    /\ prev.commit = run_commit
    /\ prev.committed # {}
    /\ new_snippets # <<>>

\* The discovered identities whose file has a row marked processed in the
\* ledger found at start-up while the store lacked them.
ClaimedButAbsent ==
    {id \in discovered \ store_at_start :
        \E i \in 1..Len(ledger_at_start) :
            /\ ledger_at_start[i].filename = id[2]
            /\ ledger_at_start[i].processed = "true"}

\* C8 (reconciliation repair): an item whose ledger row claims processed
\* while its identity is absent from the store at start-up is queued for
\* embedding by the run, and is in the store once the run's batches have all
\* succeeded.
C8_ReconciliationRepair ==
    /\ pc \in {"loop", "store"} => ClaimedButAbsent \subseteq Ids(new_snippets)
    /\ loop_done => ClaimedButAbsent \subseteq store

\* A run that started from a ledger with such a row has stored the item.
C8_Witness ==
    /\ loop_done
    /\ ClaimedButAbsent # {}
    /\ ClaimedButAbsent \subseteq marked

\* C9 as claimed (exit status): of the spec's error classes only a ledger
\* error makes the process exit non-zero; a run whose embedding call, store
\* write or completion call failed exits zero.
C9_ExitStatus ==
    (pc = "exited" /\ failure \in {"ledger", "embedding", "store_write", "completion"}) =>
        (exit = "ok" <=> failure # "ledger")

\* C10 as claimed (report completeness): a run with N >= 1 tracked units
\* that reached report generation and was not killed ends with N report
\* rows, also when the completion call failed.
C10_ReportCompleteness ==
    (/\ pc = "exited"
     /\ loop_done
     /\ indicators # <<>>
     /\ failure \in {"none", "completion"}
     /\ exit # "killed") =>
        report_rows = Len(indicators)

\* C12 as claimed (example scenario): a run over a snapshot whose three
\* files hold 50, 700 and 0 lines, started with an empty store, produces 4
\* chunks, embeds them in a single batch and ends its batch loop with
\* exactly 4 keys in the store.
C12_ExampleScenario ==
    (/\ pc \in {"report", "summaries"}
     /\ nfiles = 3
     /\ store_at_start = {}) =>
        /\ Cardinality(discovered) = 4
        /\ attempted = {0}
        /\ Cardinality(store) = 4

\* The queue keeps the order of discovery: it is what the walk collected,
\* in the walk's order, restricted to the queued identities.
QueuedInDiscoveryOrder ==
    (~Stopped /\ pc \notin {"walk", "ledger_create", "ledger_write", "open_store", "filter"}) =>
        new_snippets =
            SelectSeq(WalkSnippets(run_commit, Tree(nfiles), 1),
                      LAMBDA c : c.id \in Ids(new_snippets))

\* A step that makes an embedding call makes it for the next batch in
\* order, with no built batch waiting and every earlier batch in the store.
EmbedsAfterEarlierStores ==
    (attempted' # attempted /\ runs' = runs) =>
        /\ pc = "loop"
        /\ embeddings = <<>>
        /\ attempted = 0..(batch_index - 1)
        /\ attempted' = attempted \cup {batch_index}
        /\ \A j \in attempted : Ids(Batch(new_snippets, j)) \subseteq store

\* A step that writes the store writes the batch whose embedding call has
\* just returned.
StoresAfterOwnEmbedding ==
    store' # store =>
        /\ pc = "store"
        /\ batch_index \in attempted
        /\ embeddings = Batch(new_snippets, batch_index)
        /\ store' = store \cup Ids(embeddings)

\* C15 (sequential batches in discovery order): the queue is in discovery
\* order, batches are attempted one at a time in that order, the embedding
\* call of a batch is made only after the store write of every batch before
\* it has finished, and a batch is written only after its own embedding call.
C15_SequentialBatches ==
    /\ []QueuedInDiscoveryOrder
    /\ [][EmbedsAfterEarlierStores /\ StoresAfterOwnEmbedding]_vars

\* The third batch is being embedded after two were stored.
C15_Witness ==
    /\ pc = "store"
    /\ batch_index = 2
    /\ Cardinality(store \ store_at_start) = 2 * BATCH_SIZE

\* The rows of a ledger, by file and indicator name.
LedgerKeys(l) == {<<l[i].filename, l[i].indicator_name>> : i \in 1..Len(l)}

\* C16 as claimed (ledger rows are never deleted): after a run that follows
\* a run which wrote the ledger, every row the ledger held before is still
\* in it, also when the snapshot changed in between.
C16_LedgerRowsNeverDeleted ==
    (pc = "exited" /\ exit = "ok" /\ prev.ran /\ prev.loop_done) =>
        LedgerKeys(prev.ledger) \subseteq LedgerKeys(ledger)

RECURSIVE ConcatBatches(_, _)
\* Batches k, k+1, ... of s, concatenated.
ConcatBatches(s, k) ==
    IF k >= NumBatches(s) THEN <<>> ELSE Batch(s, k) \o ConcatBatches(s, k + 1)

\* C19 (batch partition): the new items are split into consecutive
\* non-empty batches of at most BATCH_SIZE items, all but the last of
\* exactly BATCH_SIZE, whose concatenation is the list of new items; the
\* batch handed to the store is the batch of the loop's index; with no new
\* items there is no batch and the embedding service is not called.
C19_BatchPartition ==
    pc \in {"loop", "store", "report", "summaries"} =>
        LET n == NumBatches(new_snippets) IN
          /\ \A k \in 0..(n - 1) :
               /\ Len(Batch(new_snippets, k)) >= 1
               /\ Len(Batch(new_snippets, k)) <= BATCH_SIZE
               /\ k < n - 1 => Len(Batch(new_snippets, k)) = BATCH_SIZE
          /\ ConcatBatches(new_snippets, 0) = new_snippets
          /\ attempted \subseteq 0..(n - 1)
          /\ pc = "store" => embeddings = Batch(new_snippets, batch_index)
          /\ loop_done => attempted = 0..(n - 1)
          /\ new_snippets = <<>> => (n = 0 /\ attempted = {} /\ run_submitted = {})

\* A run has attempted three batches, the last one shorter than the others.
C19_Witness ==
    /\ loop_done
    /\ attempted = {0, 1, 2}
    /\ Len(Batch(new_snippets, 2)) = 1
    /\ Len(new_snippets) = 2 * BATCH_SIZE + 1

\* ------------------------------------------------- claims on discovery

\* The chunks of s that come from the file at path, in order.
ChunksOfPath(s, path) == SelectSeq(s, LAMBDA c : c.file_path = path)

\* The entries of both directory listings, with the filter of their walk.
DirEntries ==
    {<<py_dir[k], PyFilter>> : k \in 1..Len(py_dir)}
        \cup {<<rs_dir[k], RsFilter>> : k \in 1..Len(rs_dir)}

\* The files collect_all_snippets read and chunked.
FilesRead == {d[1] : d \in {x \in DirEntries : Read(x[1], x[2])}}

\* save_indicators_csv has been called.
Collected == d_pc \in {"saved", "save_failed"}

\* The walk of git_tree got as far as entry k.
Visited(k) == \A j \in 1..k : git_tree[j].kind # "missing_tree"

\* The chunker of utils.rs keeps the cap and the two edge cases.
UtilsChunkerCap ==
    Collected =>
        \A e \in FilesRead :
            LET cs == ChunksOfPath(snippets, e.path)
            IN  /\ \A i \in 1..Len(cs) :
                       cs[i].content.to - cs[i].content.from
                           <= MAX_LINES_PER_CHUNK
                /\ e.nlines = 0 => cs = <<>>
                /\ e.nlines \in 1..MAX_LINES_PER_CHUNK =>
                       /\ Len(cs) = 1
                       /\ cs[1].content = [of |-> e.path, from |-> 0,
                                           to |-> e.nlines]

\* The collection of main.rs keeps the cap and the two edge cases.
WalkerChunkerCap ==
    d_pc = "walked" =>
        \A k \in 1..Len(git_tree) :
            (Visited(k) /\ Accepted(git_tree[k])) =>
                LET e == git_tree[k]
                    cs == ChunksOfPath(walk_result.snippets, e.path)
                IN  /\ \A i \in 1..Len(cs) :
                           cs[i].lines <= MAX_LINES_PER_CHUNK
                    /\ e.lines = 0 => cs = <<>>
                    /\ e.lines \in 1..MAX_LINES_PER_CHUNK =>
                           Len(cs) = 1 /\ cs[1].lines = e.lines

\* C11 (chunker cap and edge cases): for every file discovered, by the
\* directory walk of utils.rs or by the tree walk of main.rs, every chunk
\* produced holds at most 300 lines, a file with zero lines yields zero
\* chunks, and a file with 1 to 300 lines yields exactly one chunk that spans
\* the whole file.
C11_ChunkerCap == UtilsChunkerCap /\ WalkerChunkerCap

UniqueIds(s) ==
    \A i, j \in 1..Len(s) : s[i].id = s[j].id => (i = j /\ s[i] = s[j])

\* C14 (identity uniqueness): the list the directory walk returns, the list
\* the tree walk collects and the list the filter hands to the batch loop
\* never hold the same identity at two positions.
C14_IdentityUniqueness ==
    /\ Collected => UniqueIds(snippets)
    /\ d_pc = "walked" =>
           /\ UniqueIds(walk_result.snippets)
           /\ UniqueIds(FilterNew(walk_result.snippets, {}))

\* The directory walk returned several chunks of one file together with a
\* chunk of another file.
C14_Witness ==
    /\ Collected
    /\ \E i, j, k \in 1..Len(snippets) :
           /\ i # j
           /\ snippets[i].file_path = snippets[j].file_path
           /\ snippets[k].file_path # snippets[i].file_path

\* The directory walk skips what it cannot read and goes on.
DirFailuresLocal ==
    Collected =>
        /\ \A d \in DirEntries :
               (d[1].kind # "file" \/ ~d[1].utf8) =>
                   /\ ChunksOfPath(snippets, d[1].path) = <<>>
                   /\ \A i \in 1..Len(csv_records) :
                          csv_records[i].filename # d[1].path
        /\ \A e \in FilesRead :
               e.nlines > 0 => ChunksOfPath(snippets, e.path) # <<>>

\* The tree walk skips what it cannot read and goes on.
TreeFailuresLocal ==
    d_pc = "walked" =>
        /\ walk_result.status = "ok"
        /\ \A k \in 1..Len(git_tree) :
               LET e == git_tree[k]
               IN  /\ (e.kind \in {"missing", "missing_tree"} \/ ~e.utf8) =>
                          /\ ChunksOfPath(walk_result.snippets, e.path) = <<>>
                          /\ \A i \in 1..Len(walk_result.indicators) :
                                 walk_result.indicators[i].filename # e.path
                   /\ Accepted(e) =>
                          ChunksOfPath(walk_result.snippets, e.path) # <<>>

\* C17 (discovery failures are local): a file that is not valid text, an
\* entry that cannot be read and a subtree that cannot be loaded contribute
\* no chunk and no ledger row, every other accepted file is still discovered,
\* and the walk does not end in an error.
C17_DiscoveryFailuresLocal == DirFailuresLocal /\ TreeFailuresLocal

\* C18 (extension labels): every record save_indicators_csv writes has the
\* extension label rust, cython or python, never unknown.
C18_ExtensionLabels ==
    d_pc = "saved" =>
        \A i \in 1..Len(csv_records) :
            csv_records[i].extension \in {"rust", "cython", "python"}

\* C20 (chunks tile the file): a file of n lines that the directory walk read
\* has ceil(n/300) chunks, the i-th spanning lines [300(i-1), min(300i, n)),
\* so that each starts where the one before it ended and the last ends at n;
\* and the identities of the chunks of one file are pairwise distinct.
C20_ChunksTileFile ==
    Collected =>
        \A e \in FilesRead :
            LET cs == ChunksOfPath(snippets, e.path)
                n  == e.nlines
            IN  /\ Len(cs) = (n + MAX_LINES_PER_CHUNK - 1)
                                 \div MAX_LINES_PER_CHUNK
                /\ \A i \in 1..Len(cs) :
                       /\ cs[i].content.of = e.path
                       /\ cs[i].content.from = MAX_LINES_PER_CHUNK * (i - 1)
                       /\ cs[i].content.to
                              = Min(MAX_LINES_PER_CHUNK * i, n)
                       /\ i > 1 => cs[i].content.from = cs[i - 1].content.to
                /\ cs # <<>> => cs[Len(cs)].content.to = n
                /\ \A i, j \in 1..Len(cs) : cs[i].id = cs[j].id => i = j

\* A file of 700 lines was read and its last chunk spans lines [600, 700).
C20_Witness ==
    /\ Collected
    /\ \E i \in 1..Len(snippets) :
           /\ snippets[i].content.from = 2 * MAX_LINES_PER_CHUNK
           /\ snippets[i].content.to = 700

\* ------------------------------------------------ claims on a whole run

\* C21 (run postcondition): once a run has completed all its batches, the
\* key set of the store is the key set at the start of the run united with
\* the identities the run discovered, and total_embedded is the number of
\* identities the run added to the store.
C21_RunPostcondition ==
    loop_done =>
        /\ store = store_at_start \cup discovered
        /\ total_embedded = Cardinality(store \ store_at_start)

\* A run completed its batches on a store that already held identities, and
\* added more than one batch of its own, the last one not full.
C21_Witness ==
    /\ loop_done
    /\ store_at_start # {}
    /\ total_embedded = BATCH_SIZE + 1
    /\ discovered \cap store_at_start = {}

====
